---------------------------- MODULE Spec2Model ----------------------------
(***************************************************************************)
(* Model of lib/utils/fields.js of DataHarmonizer: the record codec        *)
(* (dataArrayToObject, dataObjectToArray), the multivalue codec            *)
(* (parseMultivaluedValue, formatMultivaluedValue), changeCase and         *)
(* fieldUnitBinTest.                                                       *)
(*                                                                         *)
(* JavaScript values are tagged records [t |-> tag, v |-> payload].  A     *)
(* string is the sequence of its characters, so that split, trim and join  *)
(* are computed and not assumed.                                           *)
(***************************************************************************)
EXTENDS Integers, Sequences, FiniteSets, TLC

VARIABLES
    pc,             \* position of the caller: which call has returned
    fields,         \* the field list handed to the call
    dataArray,      \* positional record (input of dataArrayToObject)
    options,        \* the call's options after the defaults are merged
    dataObject,     \* keyed record (output of dataArrayToObject, input of dataObjectToArray)
    error,          \* the Error thrown by the call, or NoError
    outArray,       \* positional record returned by dataObjectToArray
    warnings,       \* keys reported through console.warn
    stringifyCalls, \* per slot, the arguments of the datatypes.stringify calls made for it
    values,         \* input of formatMultivaluedValue
    formatted,      \* output of formatMultivaluedValue
    decoded,        \* output of parseMultivaluedValue
    val,            \* input string of changeCase
    field,          \* input field of changeCase
    col,            \* input column of fieldUnitBinTest
    ret             \* return value of changeCase / fieldUnitBinTest

vars == <<pc, fields, dataArray, options, dataObject, error, outArray, warnings,
          stringifyCalls, values, formatted, decoded, val, field, col, ret>>

\* Value of a variable that the specification at hand does not use.
Idle == "idle"

-----------------------------------------------------------------------------
(* Bounds of the model. *)

\* Longest string drawn as an input of the multivalue codec and of changeCase.
MaxLen == 2

\* Longest sequence handed to formatMultivaluedValue.
MaxValues == 2

\* Longest field list handed to fieldUnitBinTest, and the largest column asked.
MaxUnitBinFields == 3

\* Longest field list (and positional record) handed to the record codec.
MaxFields == 2

\* Most entries of a keyed record handed to dataObjectToArray.
MaxEntries == 2

-----------------------------------------------------------------------------
(* JavaScript values. *)

Str(s) == [t |-> "string", v |-> s]

Num(n) == [t |-> "number", v |-> n]

Arr(a) == [t |-> "array", v |-> a]

Date(k) == [t |-> "date", v |-> k]

\* new Date(NaN): a Date object that holds no instant.
INVALID_DATE == [t |-> "invalid_date", v |-> 0]

UNDEFINED == [t |-> "undefined", v |-> 0]

NULL == [t |-> "null", v |-> 0]

\* An Error object: its kind and what its message carries.
Error(kind, value, datatype) == [kind |-> kind, value |-> value, datatype |-> datatype]

NoError == [kind |-> "none", value |-> UNDEFINED, datatype |-> ""]

DigitChar == <<"0", "1", "2", "3", "4", "5", "6", "7", "8", "9">>

RECURSIVE Digits(_)
\* The decimal digits of a natural number, as Number.prototype.toString gives them.
Digits(n) ==
    IF n < 10 THEN <<DigitChar[n + 1]>>
    ELSE Digits(n \div 10) \o <<DigitChar[(n % 10) + 1]>>

IsDigit(c) == \E d \in 1..10 : DigitChar[d] = c

DigitValue(c) == (CHOOSE d \in 1..10 : DigitChar[d] = c) - 1

\* ToBoolean, as `!v` and `!!v` apply it.
Truthy(v) ==
    CASE v.t = "string" -> v.v # <<>>
      [] v.t = "number" -> v.v # 0
      [] v.t = "undefined" -> FALSE
      [] v.t = "null" -> FALSE
      [] OTHER -> TRUE

RECURSIVE TrimStart(_)
TrimStart(s) ==
    IF s # <<>> /\ Head(s) = " " THEN TrimStart(Tail(s)) ELSE s

RECURSIVE TrimEnd(_)
TrimEnd(s) ==
    IF s # <<>> /\ s[Len(s)] = " " THEN TrimEnd(SubSeq(s, 1, Len(s) - 1)) ELSE s

\* String.prototype.trim on a sequence of characters.
Trim(s) == TrimEnd(TrimStart(s))

RECURSIVE SplitFrom(_, _, _)
\* The pieces of s between occurrences of the character sep; cur is the piece
\* being read.  The result always holds at least one piece.
SplitFrom(s, sep, cur) ==
    IF s = <<>> THEN <<cur>>
    ELSE IF Head(s) = sep THEN <<cur>> \o SplitFrom(Tail(s), sep, <<>>)
    ELSE SplitFrom(Tail(s), sep, Append(cur, Head(s)))

\* String.prototype.split with a one-character separator.
Split(s, sep) == SplitFrom(s, sep, <<>>)

RECURSIVE Join(_, _)
\* Array.prototype.join of a sequence of strings.
Join(parts, delim) ==
    IF parts = <<>> THEN <<>>
    ELSE IF Len(parts) = 1 THEN parts[1]
    ELSE parts[1] \o delim \o Join(Tail(parts), delim)

\* String(v) for the values the multivalue codec is given.
JsString(v) ==
    CASE v.t = "string" -> v.v
      [] v.t = "number" -> Digits(v.v)
      [] v.t = "date" -> <<"I">> \o Digits(v.v)
      [] v.t = "invalid_date" -> <<"I", "n", "v">>
      [] v.t = "undefined" -> <<"u">>
      [] v.t = "null" -> <<"n">>
      [] OTHER -> <<>>

MapSeq(s, Op(_)) == [i \in 1..Len(s) |-> Op(s[i])]

-----------------------------------------------------------------------------
(* Multivalue codec. *)

MULTIVALUED_DELIMITER == <<";", " ">>

parseMultivaluedValue(value) ==
    IF ~Truthy(value) THEN Arr(<<>>)
    ELSE LET split == Split(value.v, Trim(MULTIVALUED_DELIMITER)[1])
             trimmed == MapSeq(split, LAMBDA v : Str(Trim(v)))
         IN  Arr(SelectSeq(trimmed, Truthy))

\* formatMultivaluedValue without the filter of falsy entries.
formatMultivaluedValue_NoFilter(vals) ==
    IF ~Truthy(vals) THEN Str(<<>>)
    ELSE Str(Join(MapSeq(vals.v,
                         LAMBDA v : IF v.t = "string" THEN Trim(v.v) ELSE JsString(v)),
                  MULTIVALUED_DELIMITER))

formatMultivaluedValue(vals) ==
    IF ~Truthy(vals) THEN Str(<<>>)
    ELSE LET kept == SelectSeq(vals.v, Truthy)
             strings == MapSeq(kept,
                               LAMBDA v : IF v.t = "string" THEN Trim(v.v) ELSE JsString(v))
         IN  Str(Join(strings, MULTIVALUED_DELIMITER))

-----------------------------------------------------------------------------
(* The multivalue codec applied: encode, then decode. *)

MVAlphabet == {"a", " ", ";"}

SeqsUpTo(S, n) == UNION {[1..k -> S] : k \in 0..n}

\* Non-empty scalar values: strings of 1..MaxLen characters, and numbers.
ScalarValues ==
    {Str(s) : s \in SeqsUpTo(MVAlphabet, MaxLen) \ {<<>>}} \cup {Num(0), Num(7)}

InitMV ==
    /\ pc = "ready"
    /\ values \in {Arr(a) : a \in SeqsUpTo(ScalarValues, MaxValues)}
    /\ formatted = Idle
    /\ decoded = Idle
    /\ fields = Idle /\ dataArray = Idle /\ options = Idle /\ dataObject = Idle
    /\ error = Idle /\ outArray = Idle /\ warnings = Idle /\ stringifyCalls = Idle
    /\ val = Idle /\ field = Idle /\ col = Idle /\ ret = Idle

FormatMultivalued ==
    /\ pc = "ready"
    /\ formatted' = formatMultivaluedValue(values)
    /\ pc' = "formatted"
    /\ UNCHANGED <<fields, dataArray, options, dataObject, error, outArray, warnings,
                   stringifyCalls, values, decoded, val, field, col, ret>>

ParseMultivalued ==
    /\ pc = "formatted"
    /\ decoded' = parseMultivaluedValue(formatted)
    /\ pc' = "parsed"
    /\ UNCHANGED <<fields, dataArray, options, dataObject, error, outArray, warnings,
                   stringifyCalls, values, formatted, val, field, col, ret>>

NextMV == FormatMultivalued \/ ParseMultivalued

SpecMV == InitMV /\ [][NextMV]_vars

HasSemicolon(v) == v.t = "string" /\ \E i \in 1..Len(v.v) : v.v[i] = ";"

WhitespaceOnly(v) == v.t = "string" /\ v.v # <<>> /\ Trim(v.v) = <<>>

\* v1..vn with the falsy entries removed and each remaining value trimmed
\* (a string) or stringified (anything else), in the original order.
TrimmedFiltered(vals) ==
    MapSeq(SelectSeq(vals, Truthy),
           LAMBDA v : Str(IF v.t = "string" THEN Trim(v.v) ELSE JsString(v)))

\* C5 as stated: decode(encode(v1..vn)) is the trimmed, falsy-filtered form of
\* v1..vn for any sequence of non-empty scalar values.
C5_RoundTripAnyValues ==
    pc = "parsed" => decoded = Arr(TrimmedFiltered(values.v))

\* C5 amended: decode(encode(v1..vn)) is the trimmed, falsy-filtered form of
\* v1..vn, order and duplicates kept, provided no value holds a semicolon and
\* no value is a string of whitespace only.
C5_RoundTripDelimiterFree ==
    (/\ pc = "parsed"
     /\ \A i \in 1..Len(values.v) :
            ~HasSemicolon(values.v[i]) /\ ~WhitespaceOnly(values.v[i]))
    => decoded = Arr(TrimmedFiltered(values.v))

\* A round trip of two equal values, one padded: duplicates and order kept.
C5_Witness ==
    /\ pc = "parsed"
    /\ values = Arr(<<Str(<<"a", " ">>), Str(<<"a">>)>>)
    /\ decoded = Arr(<<Str(<<"a">>), Str(<<"a">>)>>)

-----------------------------------------------------------------------------
(* changeCase. *)

\* String.prototype.toLowerCase and toUpperCase, character by character.
LowerChar(c) == CASE c = "A" -> "a" [] c = "B" -> "b" [] OTHER -> c

UpperChar(c) == CASE c = "a" -> "A" [] c = "b" -> "B" [] OTHER -> c

toLowerCase(s) == MapSeq(s, LowerChar)

toUpperCase(s) == MapSeq(s, UpperChar)

\* String.prototype.substr(1): the string without its first character.
Substr1(w) == IF w = <<>> THEN <<>> ELSE Tail(w)

\* The outcome of a call: a returned value, or a thrown Error.
Return(v) == [value |-> v, error |-> NoError]

Throw(e) == [value |-> UNDEFINED, error |-> e]

\* The Title_Case branch: val.split(' ').map(w => w[0].toUpperCase() + ...).join(' ').
\* w[0] of an empty word is undefined, and undefined.toUpperCase() is a TypeError.
TitleCase(s) ==
    LET words == Split(s, " ")
    IN  IF \E i \in 1..Len(words) : words[i] = <<>>
        THEN Throw(Error("TypeError", Str(s), "toUpperCase of undefined"))
        ELSE Return(Str(Join(
                 MapSeq(words,
                        LAMBDA w : <<UpperChar(w[1])>> \o toLowerCase(Substr1(w))),
                 <<" ">>)))

changeCase(v, f) ==
    CASE f.structured_pattern.syntax = "{lower_case}" -> Return(Str(toLowerCase(v.v)))
      [] f.structured_pattern.syntax = "{UPPER_CASE}" -> Return(Str(toUpperCase(v.v)))
      [] f.structured_pattern.syntax = "{Title_Case}" -> TitleCase(v.v)
      [] OTHER -> Return(v)

CaseAlphabet == {"a", "B", " "}

\* structured_pattern.syntax: the three cases, another value, or absent.
Syntaxes == {"{lower_case}", "{UPPER_CASE}", "{Title_Case}", "{other}", "undefined"}

\* A field as changeCase reads it: an object whose structured_pattern holds
\* syntax ("undefined": the property is absent).
CaseFields == {[structured_pattern |-> [syntax |-> s]] : s \in Syntaxes}

InitCase ==
    /\ pc = "ready"
    /\ val \in {Str(s) : s \in SeqsUpTo(CaseAlphabet, MaxLen)}
    /\ field \in CaseFields
    /\ ret = Idle
    /\ error = NoError
    /\ fields = Idle /\ dataArray = Idle /\ options = Idle /\ dataObject = Idle
    /\ outArray = Idle /\ warnings = Idle /\ stringifyCalls = Idle
    /\ values = Idle /\ formatted = Idle /\ decoded = Idle /\ col = Idle

ChangeCase ==
    /\ pc = "ready"
    /\ ret' = changeCase(val, field).value
    /\ error' = changeCase(val, field).error
    /\ pc' = "done"
    /\ UNCHANGED <<fields, dataArray, options, dataObject, outArray, warnings,
                   stringifyCalls, values, formatted, decoded, val, field, col>>

NextCase == ChangeCase

SpecCase == InitCase /\ [][NextCase]_vars

\* C8: changeCase never throws, for any string (the empty string and strings
\* with leading, trailing or consecutive spaces included) and any field whose
\* structured_pattern.syntax is one of the three cases, another value or absent;
\* with another or an absent syntax the string is returned unchanged.
C8_ChangeCaseNeverThrows ==
    pc = "done" =>
        /\ error = NoError
        /\ field.structured_pattern.syntax \in {"{other}", "undefined"} => ret = val

-----------------------------------------------------------------------------
(* fieldUnitBinTest. *)

UNIT == <<" ", "u", "n", "i", "t">>

BIN == <<" ", "b", "i", "n">>

\* Titles a field list is drawn from: two base titles and their companions.
Titles == {<<"x">>, <<"x">> \o UNIT, <<"x">> \o BIN, <<"y">>}

\* fieldUnitBinTest with the length test off by one (>= for >): it reads
\* fields[col + 2] of a list that has no such entry.
fieldUnitBinTest_OffByOne(flds, c) ==
    IF ~(Len(flds) >= c + 2) THEN Return(FALSE)
    ELSE IF flds[c + 2].title # flds[c + 1].title \o UNIT THEN Return(FALSE)
    ELSE IF Len(flds) < c + 3 THEN Throw(Error("TypeError", UNDEFINED, "title of undefined"))
    ELSE Return(/\ flds[c + 2].title = flds[c + 1].title \o UNIT
                /\ flds[c + 3].title = flds[c + 1].title \o BIN)

\* The JavaScript array fields is indexed from 0: fields[col] is flds[c + 1].
fieldUnitBinTest(flds, c) ==
    IF ~(Len(flds) > c + 2) THEN Return(FALSE)
    ELSE Return(/\ flds[c + 2].title = flds[c + 1].title \o UNIT
                /\ flds[c + 3].title = flds[c + 1].title \o BIN)

InitUnitBin ==
    /\ pc = "ready"
    /\ fields \in SeqsUpTo({[title |-> t] : t \in Titles}, MaxUnitBinFields)
    /\ col \in 0..MaxUnitBinFields
    /\ ret = Idle
    /\ error = NoError
    /\ dataArray = Idle /\ options = Idle /\ dataObject = Idle
    /\ outArray = Idle /\ warnings = Idle /\ stringifyCalls = Idle
    /\ values = Idle /\ formatted = Idle /\ decoded = Idle /\ val = Idle /\ field = Idle

FieldUnitBinTest ==
    /\ pc = "ready"
    /\ ret' = fieldUnitBinTest(fields, col).value
    /\ error' = fieldUnitBinTest(fields, col).error
    /\ pc' = "done"
    /\ UNCHANGED <<fields, dataArray, options, dataObject, outArray, warnings,
                   stringifyCalls, values, formatted, decoded, val, field, col>>

NextUnitBin == FieldUnitBinTest

SpecUnitBin == InitUnitBin /\ [][NextUnitBin]_vars

\* C9: fieldUnitBinTest returns true exactly when col+2 is a valid index, the
\* next title is the title at col followed by " unit" and the one after it is
\* that title followed by " bin"; otherwise it returns false, without error.
\* (fields is not assigned by the call: FieldUnitBinTest leaves it unchanged.)
C9_UnitBinIff ==
    pc = "done" =>
        /\ error = NoError
        /\ ret \in BOOLEAN
        /\ ret = (/\ col + 3 <= Len(fields)
                  /\ fields[col + 2].title = fields[col + 1].title \o <<" ", "u", "n", "i", "t">>
                  /\ fields[col + 3].title = fields[col + 1].title \o <<" ", "b", "i", "n">>)

\* A call that answers true: a field followed by its unit and bin companions.
C9_Witness ==
    /\ pc = "done"
    /\ ret = TRUE
    /\ Len(fields) = 3
    /\ col = 0

-----------------------------------------------------------------------------
(* The external coercion interface (./datatypes) and the date helpers.      *)
(* Their code is outside lib/utils/fields.js; they are modelled by their    *)
(* contract: parse gives a typed value or undefined, an instant only for a  *)
(* date/time datatype; stringify gives the canonical text of a typed value. *)
(* A date in the field's own format reads "D4", in the fixed interchange    *)
(* format "J4", and as a generic interchange instant "I4".                  *)

datatypeIsDateOrTime(datatype) == datatype \in {"xsd:date", "xsd:dateTime", "xsd:time"}

RECURSIVE NumVal(_)
\* The number a string of digits denotes.
NumVal(s) ==
    IF s = <<>> THEN 0 ELSE 10 * NumVal(SubSeq(s, 1, Len(s) - 1)) + DigitValue(s[Len(s)])

AllDigits(s) == s # <<>> /\ \A i \in 1..Len(s) : IsDigit(s[i])

\* A date text: the letter of its format, then the instant.
DateText(letter, s) == Len(s) = 2 /\ s[1] = letter /\ IsDigit(s[2])

\* datatypes.parse(value, datatype): the typed value, or undefined.
Datatypes_parse(value, datatype) ==
    IF value.t # "string" THEN UNDEFINED
    ELSE IF datatypeIsDateOrTime(datatype)
         THEN IF DateText("D", value.v) THEN Date(DigitValue(value.v[2])) ELSE UNDEFINED
         ELSE IF AllDigits(value.v) THEN Num(NumVal(value.v)) ELSE UNDEFINED

\* datatypes.stringify(value, datatype): the text of a value.
Datatypes_stringify(value, datatype) ==
    CASE value.t = "date" /\ datatypeIsDateOrTime(datatype) -> Str(<<"D">> \o Digits(value.v))
      [] value.t \in {"undefined", "null", "invalid_date"} -> Str(<<>>)
      [] OTHER -> Str(JsString(value))

\* stringifyJsonSchemaDate(dateObject, datatype): the fixed interchange text.
stringifyJsonSchemaDate(dateObject, datatype) == Str(<<"J">> \o Digits(dateObject.v))

\* parseJsonSchemaDate(dateString, datatype): an instant, or an invalid Date.
parseJsonSchemaDate(dateString, datatype) ==
    IF DateText("J", dateString.v) THEN Date(DigitValue(dateString.v[2])) ELSE INVALID_DATE

\* parseJsonDate(dateString): an instant, or an invalid Date.
parseJsonDate(dateString) ==
    IF DateText("I", dateString.v) THEN Date(DigitValue(dateString.v[2])) ELSE INVALID_DATE

\* isDate of date-fns: a Date object, whether or not it holds an instant.
isDate(value) == value.t \in {"date", "invalid_date"}

\* The global isNaN: whether Number(value) is NaN.
isNaN(value) ==
    CASE value.t = "date" -> FALSE
      [] value.t = "number" -> FALSE
      [] value.t = "null" -> FALSE
      [] value.t = "string" -> ~(Trim(value.v) = <<>> \/ AllDigits(Trim(value.v)))
      [] OTHER -> TRUE

-----------------------------------------------------------------------------
(* dataArrayToObject. *)

\* parse failure behaviors
KEEP_ORIGINAL == "KEEP_ORIGINAL"

REMOVE == "REMOVE"

THROW_ERROR == "THROW_ERROR"

\* date formats
DATE_OBJECT == "DATE_OBJECT"

JSON_SCHEMA_FORMAT == "JSON_SCHEMA_FORMAT"

INPUT_FORMAT == "INPUT_FORMAT"

\* An option the caller did not pass.
NotGiven == "undefined"

\* { parseFailureBehavior: KEEP_ORIGINAL, dateBehavior: DATE_OBJECT, ...options }
ArrayToObjectOptions(opts) ==
    [parseFailureBehavior |->
         IF opts.parseFailureBehavior = NotGiven THEN KEEP_ORIGINAL
         ELSE opts.parseFailureBehavior,
     dateBehavior |->
         IF opts.dateBehavior = NotGiven THEN DATE_OBJECT ELSE opts.dateBehavior]

\* A keyed record: an object value holding a function from its keys.
Obj(f) == [t |-> "object", v |-> f]

EmptyObject == [k \in {} |-> UNDEFINED]

\* An assignment that replaces the object instead of adding to it.
SetKey_Replace(f, key, value) == [k \in {key} |-> value]

\* obj[key] = value
SetKey(f, key, value) ==
    [k \in DOMAIN f \cup {key} |-> IF k = key THEN value ELSE f[k]]

\* formatDatesAndTimes with the INPUT_FORMAT and JSON_SCHEMA_FORMAT branches swapped.
formatDatesAndTimes_Swapped(dateObject, datatype, o) ==
    IF ~isDate(dateObject) THEN dateObject
    ELSE IF o.dateBehavior = DATE_OBJECT THEN dateObject
    ELSE IF o.dateBehavior = INPUT_FORMAT THEN stringifyJsonSchemaDate(dateObject, datatype)
    ELSE IF o.dateBehavior = JSON_SCHEMA_FORMAT THEN Datatypes_stringify(dateObject, datatype)
    ELSE UNDEFINED

formatDatesAndTimes(dateObject, datatype, o) ==
    IF ~isDate(dateObject) THEN dateObject
    ELSE IF o.dateBehavior = DATE_OBJECT THEN dateObject
    ELSE IF o.dateBehavior = INPUT_FORMAT THEN Datatypes_stringify(dateObject, datatype)
    ELSE IF o.dateBehavior = JSON_SCHEMA_FORMAT THEN stringifyJsonSchemaDate(dateObject, datatype)
    ELSE UNDEFINED

\* getParsedValue that throws on a failed parse under REMOVE as well.
getParsedValue_ThrowOnRemove(originalValue, datatype, o) ==
    LET parsedValue == Datatypes_parse(originalValue, datatype)
    IN  IF parsedValue # UNDEFINED THEN Return(formatDatesAndTimes(parsedValue, datatype, o))
        ELSE IF o.parseFailureBehavior = KEEP_ORIGINAL THEN Return(originalValue)
        ELSE Throw(Error("Error", originalValue, datatype))

getParsedValue(originalValue, datatype, o) ==
    LET parsedValue == Datatypes_parse(originalValue, datatype)
    IN  IF parsedValue # UNDEFINED THEN Return(formatDatesAndTimes(parsedValue, datatype, o))
        ELSE IF o.parseFailureBehavior = KEEP_ORIGINAL THEN Return(originalValue)
        ELSE IF o.parseFailureBehavior = THROW_ERROR
             THEN Throw(Error("Error", originalValue, datatype))
        ELSE Return(UNDEFINED)

RECURSIVE MapParsed(_, _, _)
\* split.map(cellElement => getParsedValue(cellElement, field.datatype)): the
\* mapped values, or the first Error thrown.
MapParsed(split, datatype, o) ==
    IF split = <<>> THEN Return(<<>>)
    ELSE LET first == getParsedValue(Head(split), datatype, o)
         IN  IF first.error # NoError THEN first
             ELSE LET rest == MapParsed(Tail(split), datatype, o)
                  IN  IF rest.error # NoError THEN rest
                      ELSE Return(<<first.value>> \o rest.value)

\* The forEach callback that sets a multivalued key even when nothing parsed.
ConvertCell_KeepEmpty(obj, cell, fld, o) ==
    IF cell = Str(<<>>) \/ cell = NULL \/ cell = UNDEFINED THEN Return(obj)
    ELSE IF fld.multivalued
         THEN LET mapped == MapParsed(parseMultivaluedValue(cell).v, fld.datatype, o)
              IN  IF mapped.error # NoError THEN mapped
                  ELSE Return(SetKey(obj, fld.name,
                                     Arr(SelectSeq(mapped.value, LAMBDA v : v # UNDEFINED))))
         ELSE LET parsed == getParsedValue(cell, fld.datatype, o)
              IN  IF parsed.error # NoError THEN parsed
                  ELSE Return(SetKey(obj, fld.name, parsed.value))

\* The forEach callback: the object after the cell at one index is handled,
\* or the Error thrown while handling it.
ConvertCell(obj, cell, fld, o) ==
    IF cell = Str(<<>>) \/ cell = NULL \/ cell = UNDEFINED THEN Return(obj)
    ELSE IF fld.multivalued
         THEN LET mapped == MapParsed(parseMultivaluedValue(cell).v, fld.datatype, o)
              IN  IF mapped.error # NoError THEN mapped
                  ELSE LET parsed == SelectSeq(mapped.value, LAMBDA v : v # UNDEFINED)
                       IN  IF Len(parsed) > 0
                           THEN Return(SetKey(obj, fld.name, Arr(parsed)))
                           ELSE Return(obj)
         ELSE LET parsed == getParsedValue(cell, fld.datatype, o)
              IN  IF parsed.error # NoError THEN parsed
                  ELSE Return(SetKey(obj, fld.name, parsed.value))

RECURSIVE ForEachCell(_, _, _, _, _)
\* dataArray.forEach from index idx on; an Error ends the loop.
ForEachCell(obj, idx, arr, flds, o) ==
    IF idx > Len(arr) THEN Return(Obj(obj))
    ELSE LET step == ConvertCell(obj, arr[idx], flds[idx], o)
         IN  IF step.error # NoError THEN step
             ELSE ForEachCell(step.value, idx + 1, arr, flds, o)

dataArrayToObject(arr, flds, opts) ==
    ForEachCell(EmptyObject, 1, arr, flds, ArrayToObjectOptions(opts))

-----------------------------------------------------------------------------
(* dataObjectToArray. *)

\* { serializedDateFormat: DATE_OBJECT, ...options }
ObjectToArrayOptions(opts) ==
    [serializedDateFormat |->
         IF opts.serializedDateFormat = NotGiven THEN DATE_OBJECT
         ELSE opts.serializedDateFormat]

\* Array(n) without fill(''): every slot is left undefined.
FilledArray_NoFill(n) == [i \in 1..n |-> UNDEFINED]

\* Array(n).fill('')
FilledArray(n) == [i \in 1..n |-> Str(<<>>)]

\* parseDateString with the parsers of DATE_OBJECT and JSON_SCHEMA_FORMAT swapped.
parseDateString_Swapped(dateString, datatype, o) ==
    IF o.serializedDateFormat = DATE_OBJECT THEN parseJsonSchemaDate(dateString, datatype)
    ELSE IF o.serializedDateFormat = INPUT_FORMAT THEN Datatypes_parse(dateString, datatype)
    ELSE IF o.serializedDateFormat = JSON_SCHEMA_FORMAT THEN parseJsonDate(dateString)
    ELSE UNDEFINED

parseDateString(dateString, datatype, o) ==
    IF o.serializedDateFormat = DATE_OBJECT THEN parseJsonDate(dateString)
    ELSE IF o.serializedDateFormat = INPUT_FORMAT THEN Datatypes_parse(dateString, datatype)
    ELSE IF o.serializedDateFormat = JSON_SCHEMA_FORMAT
         THEN parseJsonSchemaDate(dateString, datatype)
    ELSE UNDEFINED

\* One call datatypes.stringify(value, datatype): what it returns, and the
\* record of the call.
StringifyCall(value, datatype) ==
    [ret |-> Datatypes_stringify(value, datatype),
     calls |-> <<[value |-> value, datatype |-> datatype]>>]

\* getStringifiedValue that returns the working value without stringifying it.
getStringifiedValue_NoStringify(originalValue, datatype, o) ==
    IF datatypeIsDateOrTime(datatype) /\ originalValue.t = "string"
    THEN LET parsed == parseDateString(originalValue, datatype, o)
         IN  IF ~isNaN(parsed) THEN [ret |-> parsed, calls |-> <<>>]
             ELSE [ret |-> originalValue, calls |-> <<>>]
    ELSE [ret |-> originalValue, calls |-> <<>>]

getStringifiedValue(originalValue, datatype, o) ==
    IF datatypeIsDateOrTime(datatype) /\ originalValue.t = "string"
    THEN LET parsed == parseDateString(originalValue, datatype, o)
         IN  IF ~isNaN(parsed) THEN StringifyCall(parsed, datatype)
             ELSE StringifyCall(originalValue, datatype)
    ELSE StringifyCall(originalValue, datatype)

\* fields.findIndex(f => f.name === key), counted from 1; 0 when there is none.
FindIndex(flds, key) ==
    IF \E i \in 1..Len(flds) : flds[i].name = key
    THEN CHOOSE i \in 1..Len(flds) :
             /\ flds[i].name = key
             /\ \A j \in 1..(i - 1) : flds[j].name # key
    ELSE 0

RECURSIVE FlattenCalls(_)
FlattenCalls(results) ==
    IF results = <<>> THEN <<>> ELSE Head(results).calls \o FlattenCalls(Tail(results))

\* What the call has built so far: the array, the keys warned about, and per
\* slot the stringify calls made for it.
Output(array, warned, calls) == [array |-> array, warnings |-> warned, calls |-> calls]

\* The loop body without the test of fieldIdx: fields[-1] is undefined and
\* reading its multivalued property is a TypeError.
ConvertEntry_NoGuard(out, key, value, flds, o) ==
    LET fieldIdx == FindIndex(flds, key)
    IN  IF fieldIdx = 0
        THEN Throw(Error("TypeError", Str(<<>>), "multivalued of undefined"))
        ELSE Return(Output([out.array EXCEPT ![fieldIdx] =
                                getStringifiedValue(value, flds[fieldIdx].datatype, o).ret],
                           out.warnings, out.calls))

\* The body of the loop over Object.entries(dataObject) for one entry.
ConvertEntry(out, key, value, flds, o) ==
    LET fieldIdx == FindIndex(flds, key)
    IN  IF fieldIdx = 0
        THEN Return(Output(out.array, out.warnings \cup {key}, out.calls))
        ELSE IF flds[fieldIdx].multivalued /\ value.t = "array"
             THEN LET results == MapSeq(value.v,
                                        LAMBDA v : getStringifiedValue(
                                            v, flds[fieldIdx].datatype, o))
                  IN  Return(Output(
                          [out.array EXCEPT ![fieldIdx] =
                               formatMultivaluedValue(
                                   Arr(MapSeq(results, LAMBDA r : r.ret)))],
                          out.warnings,
                          [out.calls EXCEPT ![fieldIdx] = FlattenCalls(results)]))
             ELSE LET result == getStringifiedValue(value, flds[fieldIdx].datatype, o)
                  IN  Return(Output([out.array EXCEPT ![fieldIdx] = result.ret],
                                    out.warnings,
                                    [out.calls EXCEPT ![fieldIdx] = result.calls]))

RECURSIVE ForEachEntry(_, _, _, _, _)
\* for (const [key, value] of Object.entries(dataObject)) over the entries
\* not yet visited.  An entry writes the slot of its own key only, and the
\* warnings are collected as a set, so the order of the visit does not show.
ForEachEntry(out, keys, obj, flds, o) ==
    IF keys = {} THEN Return(out)
    ELSE LET key == CHOOSE k \in keys : TRUE
             step == ConvertEntry(out, key, obj[key], flds, o)
         IN  IF step.error # NoError THEN step
             ELSE ForEachEntry(step.value, keys \ {key}, obj, flds, o)

dataObjectToArray(obj, flds, opts) ==
    ForEachEntry(Output(FilledArray(Len(flds)), {}, [i \in 1..Len(flds) |-> <<>>]),
                 DOMAIN obj.v, obj.v, flds, ObjectToArrayOptions(opts))

-----------------------------------------------------------------------------
(* Inputs of the record codec. *)

NoOptions ==
    [parseFailureBehavior |-> NotGiven, dateBehavior |-> NotGiven,
     serializedDateFormat |-> NotGiven]

\* Field names are opaque keys, compared for equality only.
FieldNames == <<"f1", "f2", "f3", "f4", "f5", "f6">>

RecordDatatypes == {"xsd:decimal", "xsd:date"}

FieldsNamed(n) ==
    [name : {FieldNames[k] : k \in 1..n}, datatype : RecordDatatypes, multivalued : BOOLEAN]

\* Field lists are drawn up to a renaming of their names: each name is one
\* that occurs earlier in the list or the first name not used yet.  Lists with
\* repeated names are among them (uniqueness is not enforced by the code).
FirstOccurrenceOrder(flds) ==
    \A i \in 1..Len(flds) :
        \E k \in 1..i :
            /\ flds[i].name = FieldNames[k]
            /\ \A m \in 1..(k - 1) : \E j \in 1..(i - 1) : flds[j].name = FieldNames[m]

FieldLists ==
    UNION {{flds \in [1..n -> FieldsNamed(n)] : FirstOccurrenceOrder(flds)} : n \in 0..MaxFields}

UniqueNames(flds) ==
    \A i, j \in 1..Len(flds) : i # j => flds[i].name # flds[j].name

\* Cells of a positional record: empty, absent, a number text, a date text,
\* a delimited cell of both, and blanks.
Cells ==
    {Str(<<>>), NULL, Str(<<"4">>), Str(<<"D", "4">>),
     Str(<<"4", ";", "D", "4">>), Str(<<" ">>)}

ParseFailureBehaviors == {KEEP_ORIGINAL, REMOVE, THROW_ERROR}

DateFormats == {DATE_OBJECT, JSON_SCHEMA_FORMAT, INPUT_FORMAT}

\* The field list is there before any record is converted; the positional
\* record and the options are the arguments of a call.
InitA2O ==
    /\ pc = "ready"
    /\ fields \in FieldLists
    /\ dataArray = <<>>
    /\ options = NoOptions
    /\ dataObject = UNDEFINED
    /\ error = NoError
    /\ outArray = Idle /\ warnings = Idle /\ stringifyCalls = Idle
    /\ values = Idle /\ formatted = Idle /\ decoded = Idle
    /\ val = Idle /\ field = Idle /\ col = Idle /\ ret = Idle

\* A call dataArrayToObject(arr, fields, opts): it returns the keyed record
\* or throws.
DataArrayToObjectCall(arr, opts) ==
    /\ dataArray' = arr
    /\ options' = opts
    /\ \E r \in {dataArrayToObject(arr, fields, opts)} :
           /\ dataObject' = r.value
           /\ error' = r.error
           /\ pc' = IF r.error = NoError THEN "object" ELSE "thrown"
    /\ UNCHANGED <<fields, outArray, warnings, stringifyCalls,
                   values, formatted, decoded, val, field, col, ret>>

DataArrayToObject ==
    /\ pc = "ready"
    /\ \E arr \in [1..Len(fields) -> Cells] :
           \E opts \in [parseFailureBehavior : ParseFailureBehaviors,
                         dateBehavior : DateFormats,
                         serializedDateFormat : {NotGiven}] :
               DataArrayToObjectCall(arr, opts)

NextA2O == DataArrayToObject

SpecA2O == InitA2O /\ [][NextA2O]_vars

NonEmptyCell(cell) == cell # Str(<<>>) /\ cell # NULL /\ cell # UNDEFINED

\* The values of slot i that are handed to the parser: the cell, or the
\* decoded tokens of a multivalued cell.
ParserInputs(i) ==
    IF ~NonEmptyCell(dataArray[i]) THEN {}
    ELSE IF fields[i].multivalued
         THEN LET tokens == parseMultivaluedValue(dataArray[i]).v
              IN  {tokens[k] : k \in 1..Len(tokens)}
         ELSE {dataArray[i]}

\* C1: dataArrayToObject throws if and only if parseFailureBehavior is
\* THROW_ERROR and the parser returns undefined for some non-empty cell or some
\* decoded token of a multivalued cell; when it throws, no keyed record is
\* returned and the Error carries a value the parser rejected and its datatype.
C1_ThrowIffUnparseableUnderThrowError ==
    pc \in {"object", "thrown"} =>
        /\ pc = "thrown" <=>
               /\ options.parseFailureBehavior = THROW_ERROR
               /\ \E i \in 1..Len(dataArray) :
                      \E raw \in ParserInputs(i) :
                          Datatypes_parse(raw, fields[i].datatype) = UNDEFINED
        /\ pc = "thrown" =>
               /\ dataObject = UNDEFINED
               /\ error.kind = "Error"
               /\ \E i \in 1..Len(dataArray) :
                      /\ error.value \in ParserInputs(i)
                      /\ error.datatype = fields[i].datatype
                      /\ Datatypes_parse(error.value, error.datatype) = UNDEFINED
        /\ pc = "object" => dataObject.t = "object" /\ error = NoError

\* A call that throws on its second cell after the first cell parsed.
C1_Witness ==
    /\ pc = "thrown"
    /\ Len(dataArray) = 2
    /\ ~fields[1].multivalued
    /\ NonEmptyCell(dataArray[1])
    /\ Datatypes_parse(dataArray[1], fields[1].datatype) # UNDEFINED
    /\ error.value = dataArray[2]

\* The names whose key dataArrayToObject sets: the cell is not empty or absent,
\* and the field is not multivalued or one decoded token has a coercion
\* result other than undefined.
ExpectedKeys ==
    {fields[i].name : i \in
        {j \in 1..Len(fields) :
            /\ NonEmptyCell(dataArray[j])
            /\ \/ ~fields[j].multivalued
               \/ \E raw \in ParserInputs(j) :
                      getParsedValue(raw, fields[j].datatype,
                                     ArrayToObjectOptions(options)).value # UNDEFINED}}

\* C2: with unique field names, the keys of the returned record are exactly
\* the names of the fields whose cell is not empty or absent and that are not
\* multivalued, or are multivalued with a token whose coercion result is not
\* undefined.  A multivalued key never holds an empty sequence, and under
\* REMOVE a failed single-valued cell still sets its key, to undefined.
C2_KeySet ==
    (pc = "object" /\ UniqueNames(fields)) =>
        /\ DOMAIN dataObject.v = ExpectedKeys
        /\ \A i \in 1..Len(fields) :
               fields[i].name \in DOMAIN dataObject.v =>
                   /\ fields[i].multivalued =>
                          /\ dataObject.v[fields[i].name].t = "array"
                          /\ dataObject.v[fields[i].name].v # <<>>
                   /\ (/\ ~fields[i].multivalued
                       /\ options.parseFailureBehavior = REMOVE
                       /\ Datatypes_parse(dataArray[i], fields[i].datatype) = UNDEFINED)
                      => dataObject.v[fields[i].name] = UNDEFINED

\* Under REMOVE: a failed single-valued cell whose key is set to undefined,
\* beside a multivalued cell whose tokens are all dropped and that has no key.
C2_Witness ==
    /\ pc = "object"
    /\ UniqueNames(fields)
    /\ Len(fields) = 2
    /\ options.parseFailureBehavior = REMOVE
    /\ ~fields[1].multivalued
    /\ fields[1].name \in DOMAIN dataObject.v
    /\ dataObject.v[fields[1].name] = UNDEFINED
    /\ fields[2].multivalued
    /\ ParserInputs(2) # {}
    /\ fields[2].name \notin DOMAIN dataObject.v

\* What is stored for a value the parser coerced to p, by dateBehavior.
StoredForm(p, datatype) ==
    IF p.t # "date" THEN p
    ELSE CASE options.dateBehavior = DATE_OBJECT -> p
           [] options.dateBehavior = INPUT_FORMAT -> Datatypes_stringify(p, datatype)
           [] options.dateBehavior = JSON_SCHEMA_FORMAT -> stringifyJsonSchemaDate(p, datatype)

\* C7: a value the parser coerces is stored unchanged when it is not a date
\* instant; a date instant is stored as itself under DATE_OBJECT, as the
\* external stringify of it under INPUT_FORMAT, and as the fixed-interchange
\* text of it under JSON_SCHEMA_FORMAT.  (Single-valued cells, and multivalued
\* cells all of whose tokens are coerced; the entry read is that of the last
\* field of its name, which no later cell overwrites.)
C7_DateBehavior ==
    pc = "object" =>
        \A i \in 1..Len(fields) :
            (/\ ParserInputs(i) # {}
             /\ \A raw \in ParserInputs(i) :
                    Datatypes_parse(raw, fields[i].datatype) # UNDEFINED
             /\ \A j \in (i + 1)..Len(fields) : fields[j].name # fields[i].name)
            => /\ fields[i].name \in DOMAIN dataObject.v
               /\ dataObject.v[fields[i].name] =
                      IF fields[i].multivalued
                      THEN Arr(MapSeq(parseMultivaluedValue(dataArray[i]).v,
                                      LAMBDA raw : StoredForm(
                                          Datatypes_parse(raw, fields[i].datatype),
                                          fields[i].datatype)))
                      ELSE StoredForm(Datatypes_parse(dataArray[i], fields[i].datatype),
                                      fields[i].datatype)

\* A date cell stored in the fixed interchange format beside a number cell
\* that is stored as the number.
C7_Witness ==
    /\ pc = "object"
    /\ UniqueNames(fields)
    /\ Len(fields) = 2
    /\ options.dateBehavior = JSON_SCHEMA_FORMAT
    /\ fields[1].name \in DOMAIN dataObject.v
    /\ dataObject.v[fields[1].name] = Str(<<"J", "4">>)
    /\ fields[2].name \in DOMAIN dataObject.v
    /\ dataObject.v[fields[2].name] = Num(4)

\* The coercion results of the tokens of multivalued slot i, each token
\* coerced by itself, without those that are undefined.
TokenResults(i) ==
    LET tokens == parseMultivaluedValue(dataArray[i]).v
    IN  SelectSeq([k \in 1..Len(tokens) |->
                       getParsedValue(tokens[k], fields[i].datatype,
                                      ArrayToObjectOptions(options)).value],
                  LAMBDA v : v # UNDEFINED)

\* C10: under KEEP_ORIGINAL or REMOVE and with unique field names the call
\* returns, and the entry of a field (whether its key is set, and to what) is
\* the one the call produces for that field's cell alone; so two records
\* that differ in one slot agree on every other key.  Within a multivalued
\* cell, the entry holds the result of every token that has one, in order,
\* whatever becomes of the other tokens.
C10_FailureLocality ==
    options.parseFailureBehavior \in {KEEP_ORIGINAL, REMOVE} =>
        /\ pc # "thrown"
        /\ (pc = "object" /\ UniqueNames(fields)) =>
               \A i \in 1..Len(fields) :
                   LET alone == dataArrayToObject(<<dataArray[i]>>, <<fields[i]>>, options).value.v
                       name == fields[i].name
                   IN  /\ name \in DOMAIN dataObject.v <=> name \in DOMAIN alone
                       /\ name \in DOMAIN dataObject.v => dataObject.v[name] = alone[name]
                       /\ (fields[i].multivalued /\ NonEmptyCell(dataArray[i])) =>
                              IF TokenResults(i) = <<>>
                              THEN name \notin DOMAIN dataObject.v
                              ELSE dataObject.v[name] = Arr(TokenResults(i))

\* Under REMOVE: the first cell is coerced and keeps its entry while one of
\* the two tokens of the second cell fails and the other is kept.
C10_Witness ==
    /\ pc = "object"
    /\ UniqueNames(fields)
    /\ Len(fields) = 2
    /\ options.parseFailureBehavior = REMOVE
    /\ ParserInputs(1) # {}
    /\ \A raw \in ParserInputs(1) : Datatypes_parse(raw, fields[1].datatype) # UNDEFINED
    /\ fields[1].name \in DOMAIN dataObject.v
    /\ fields[2].multivalued
    /\ Cardinality(ParserInputs(2)) = 2
    /\ \E raw \in ParserInputs(2) : Datatypes_parse(raw, fields[2].datatype) = UNDEFINED
    /\ fields[2].name \in DOMAIN dataObject.v
    /\ Len(dataObject.v[fields[2].name].v) = 1

-----------------------------------------------------------------------------
(* dataObjectToArray applied to keyed records of any origin. *)

UnknownKey == "unknown_key"

\* Values of a keyed record: a date text in the field's format, in the fixed
\* interchange format and as a generic interchange instant, an instant, and
\* a sequence of texts.
ObjectValues ==
    {Str(<<"D", "4">>), Str(<<"J", "4">>), Str(<<"I", "4">>), Date(4),
     Arr(<<Str(<<"D", "4">>), Str(<<"J", "4">>)>>)}

ObjectKeys == {FieldNames[k] : k \in 1..MaxFields} \cup {UnknownKey}

KeyedRecords ==
    UNION {[keys -> ObjectValues] :
               keys \in {ks \in SUBSET ObjectKeys : Cardinality(ks) <= MaxEntries}}

InitO2A ==
    /\ pc = "ready"
    /\ fields \in FieldLists
    /\ dataArray = <<>>
    /\ options = NoOptions
    /\ dataObject = UNDEFINED
    /\ error = NoError
    /\ outArray = UNDEFINED
    /\ warnings = {}
    /\ stringifyCalls = <<>>
    /\ values = Idle /\ formatted = Idle /\ decoded = Idle
    /\ val = Idle /\ field = Idle /\ col = Idle /\ ret = Idle

\* A call dataObjectToArray(obj, fields, opts): it returns the array or throws.
DataObjectToArrayCall(obj, opts) ==
    /\ dataObject' = obj
    /\ options' = opts
    /\ \E r \in {dataObjectToArray(obj, fields, opts)} :
           /\ error' = r.error
           /\ IF r.error = NoError
              THEN /\ outArray' = Arr(r.value.array)
                   /\ warnings' = r.value.warnings
                   /\ stringifyCalls' = r.value.calls
                   /\ pc' = "array"
              ELSE /\ outArray' = UNDEFINED
                   /\ UNCHANGED <<warnings, stringifyCalls>>
                   /\ pc' = "thrown"
    /\ UNCHANGED <<fields, dataArray, values, formatted, decoded, val, field, col, ret>>

DataObjectToArray ==
    /\ pc = "ready"
    /\ \E f \in KeyedRecords :
           \E sdf \in DateFormats :
               DataObjectToArrayCall(Obj(f), [NoOptions EXCEPT !.serializedDateFormat = sdf])

NextO2A == DataObjectToArray

SpecO2A == InitO2A /\ [][NextO2A]_vars

\* The keys of the keyed record that are the name of a field.
KnownKeys == {key \in DOMAIN dataObject.v : \E i \in 1..Len(fields) : fields[i].name = key}

\* C3: dataObjectToArray returns, without throwing, a sequence as long as the
\* field list in which every slot whose field name is not a key of the record
\* is the empty string; a key that names no field changes no slot and is
\* warned about; every other entry is still converted, into what it gives
\* when it is the only entry.
C3_LengthEmptySlotsUnknownKeys ==
    pc # "ready" =>
        /\ pc = "array"
        /\ error = NoError
        /\ Len(outArray.v) = Len(fields)
        /\ \A i \in 1..Len(fields) :
               fields[i].name \notin DOMAIN dataObject.v => outArray.v[i] = Str(<<>>)
        /\ warnings = DOMAIN dataObject.v \ KnownKeys
        /\ KnownKeys = {} => outArray.v = [i \in 1..Len(fields) |-> Str(<<>>)]
        /\ \A key \in KnownKeys :
               \A i \in {FindIndex(fields, key)} :
                   outArray.v[i] =
                       dataObjectToArray(Obj([k \in {key} |-> dataObject.v[key]]),
                                         fields, options).value.array[i]

\* A record with an unknown key and a known key: the unknown one is warned
\* about and the known one is converted.
C3_Witness ==
    /\ pc = "array"
    /\ Len(fields) = 2
    /\ UniqueNames(fields)
    /\ DOMAIN dataObject.v = {UnknownKey, fields[2].name}
    /\ warnings = {UnknownKey}
    /\ outArray.v[1] = Str(<<>>)
    /\ outArray.v[2] # Str(<<>>)

\* The text reinterpreted by serializedDateFormat.
Reinterpreted(text, datatype) ==
    CASE options.serializedDateFormat = DATE_OBJECT -> parseJsonDate(text)
      [] options.serializedDateFormat = INPUT_FORMAT -> Datatypes_parse(text, datatype)
      [] options.serializedDateFormat = JSON_SCHEMA_FORMAT -> parseJsonSchemaDate(text, datatype)

\* The value handed to the final stringify: the instant a text of a date/time
\* field is reinterpreted to when that is a valid instant, else the value.
WorkingValue(value, datatype) ==
    IF datatypeIsDateOrTime(datatype) /\ value.t = "string"
          /\ Reinterpreted(value, datatype).t = "date"
    THEN Reinterpreted(value, datatype)
    ELSE value

-----------------------------------------------------------------------------
(* The round trip: dataArrayToObject, then dataObjectToArray on its result. *)

\* Cells of the round trip: those above, and a number text that is not in
\* canonical form.
RoundTripCells == Cells \cup {Str(<<"0", "4">>)}

\* Field lists of single-valued fields.
SingleValuedFieldLists ==
    {flds \in FieldLists : \A i \in 1..Len(flds) : ~flds[i].multivalued}

InitRT ==
    /\ pc = "ready"
    /\ fields \in SingleValuedFieldLists
    /\ dataArray = <<>>
    /\ options = NoOptions
    /\ dataObject = UNDEFINED
    /\ error = NoError
    /\ outArray = UNDEFINED
    /\ warnings = {}
    /\ stringifyCalls = <<>>
    /\ values = Idle /\ formatted = Idle /\ decoded = Idle
    /\ val = Idle /\ field = Idle /\ col = Idle /\ ret = Idle

\* dataArrayToObject(record, fields, {dateBehavior}): parseFailureBehavior is
\* left to its default.
ConvertRecord ==
    /\ pc = "ready"
    /\ \E arr \in [1..Len(fields) -> RoundTripCells] :
           \E db \in DateFormats :
               DataArrayToObjectCall(arr, [NoOptions EXCEPT !.dateBehavior = db])

\* dataObjectToArray(object, fields, {serializedDateFormat}) on the keyed
\* record the first call returned.
RestoreRecord ==
    /\ pc = "object"
    /\ \E sdf \in DateFormats :
           DataObjectToArrayCall(dataObject, [options EXCEPT !.serializedDateFormat = sdf])

NextRT == ConvertRecord \/ RestoreRecord

SpecRT == InitRT /\ [][NextRT]_vars

\* A cell in canonical stringified form: stringify(parse(cell, datatype), datatype) = cell.
Canonical(cell, datatype) ==
    Datatypes_stringify(Datatypes_parse(cell, datatype), datatype) = cell

\* The round trip is that of the claim: single-valued fields, every cell the
\* empty string or canonical, INPUT_FORMAT in both directions.
RoundTripCase ==
    /\ pc = "array"
    /\ options.dateBehavior = INPUT_FORMAT
    /\ options.serializedDateFormat = INPUT_FORMAT
    /\ \A i \in 1..Len(fields) :
           /\ ~fields[i].multivalued
           /\ dataArray[i] = Str(<<>>) \/ Canonical(dataArray[i], fields[i].datatype)

\* C4 as stated: for every field list of single-valued fields and every record
\* of canonical or empty cells, the round trip under INPUT_FORMAT gives back
\* the record slot for slot.
C4_RoundTripAnyFieldList ==
    RoundTripCase => outArray = Arr(dataArray)

\* C4 amended: the same, for field lists whose names are unique.
C4_RoundTripUniqueNames ==
    (RoundTripCase /\ UniqueNames(fields)) => outArray = Arr(dataArray)

\* A date cell and a number cell that come back as they were.
C4_Witness ==
    /\ RoundTripCase
    /\ UniqueNames(fields)
    /\ dataArray = <<Str(<<"D", "4">>), Str(<<"4">>)>>
    /\ dataObject.v[fields[1].name] = Str(<<"D", "4">>)
    /\ dataObject.v[fields[2].name] = Num(4)
    /\ outArray = Arr(dataArray)

=============================================================================
